---- MODULE Spec2Model ----
(***************************************************************************)
(* CodeCollector (code_collector.py): main() aggregates the files of the   *)
(* tree under the working directory into one artifact (aggregate_code) and *)
(* then copies it to the clipboard (copy_file_to_clipboard).               *)
(*                                                                         *)
(* A Python str is modelled as a sequence of code points, each written as  *)
(* a one-element string; len() is Len, + is \o.  The marker of a header is *)
(* the two code points U+25B6 U+FE0F, written "U+25B6" and "U+FE0F".       *)
(***************************************************************************)
EXTENDS Integers, Sequences, FiniteSets, TLC

\* ---------------------------------------------------------------- bounds
\* main() is run at most MaxRuns times in the same directory.
MaxRuns == 2
\* At most MaxFaults operations on the artifact fail for an environmental
\* reason (disk full, I/O error) over the runs.
MaxFaults == 1

\* ------------------------------------------------------- configuration
ALLOWED_EXTENSIONS ==
  {
    <<".","p","y">>, <<".","p","y","i">>, <<".","i","p","y","n","b">>, <<".","j","s">>,
    <<".","m","j","s">>, <<".","c","j","s">>, <<".","j","s","x">>, <<".","t","s">>,
    <<".","t","s","x">>, <<".","j","a","v","a">>, <<".","k","t">>, <<".","k","t","s">>,
    <<".","c">>, <<".","h">>, <<".","c","p","p">>, <<".","c","c">>, <<".","h","p","p">>,
    <<".","c","s">>, <<".","f","s">>, <<".","f","s","x">>, <<".","g","o">>, <<".","r","s">>,
    <<".","s","w","i","f","t">>, <<".","p","h","p">>, <<".","r","b">>, <<".","p","l">>,
    <<".","p","m">>, <<".","e","x">>, <<".","e","x","s">>, <<".","e","r","l">>,
    <<".","h","r","l">>, <<".","h","s">>, <<".","l","h","s">>, <<".","s","c","a","l","a">>,
    <<".","c","l","j">>, <<".","c","l","j","s">>, <<".","e","d","n">>, <<".","l","u","a">>,
    <<".","r">>, <<".","j","l">>, <<".","h","t","m","l">>, <<".","h","t","m">>,
    <<".","x","m","l">>, <<".","x","h","t","m","l">>, <<".","v","u","e">>,
    <<".","s","v","e","l","t","e">>, <<".","a","s","t","r","o">>, <<".","e","j","s">>,
    <<".","p","u","g">>, <<".","j","a","d","e">>, <<".","h","b","s">>,
    <<".","m","u","s","t","a","c","h","e">>, <<".","n","j","k">>, <<".","c","s","s">>,
    <<".","s","c","s","s">>, <<".","s","a","s","s">>, <<".","l","e","s","s">>,
    <<".","s","t","y","l">>, <<".","j","s","o","n">>, <<".","j","s","o","n","c">>,
    <<".","c","s","v">>, <<".","t","s","v">>, <<".","n","d","j","s","o","n">>,
    <<".","y","a","m","l">>, <<".","y","m","l">>, <<".","t","o","m","l">>, <<".","i","n","i">>,
    <<".","c","f","g">>, <<".","c","o","n","f">>, <<".","s","q","l">>, <<".","p","s","q","l">>,
    <<".","p","r","i","s","m","a">>, <<".","g","r","a","p","h","q","l">>, <<".","g","q","l">>,
    <<".","s","h">>, <<".","b","a","s","h">>, <<".","z","s","h">>, <<".","f","i","s","h">>,
    <<".","b","a","t">>, <<".","c","m","d">>, <<".","p","s","1">>, <<".","m","d">>,
    <<".","m","d","x">>, <<".","r","s","t">>, <<".","a","d","o","c">>, <<".","t","x","t">>,
    <<".","l","o","g">>
  }

SPECIAL_FILENAMES ==
  {
    <<"D","o","c","k","e","r","f","i","l","e">>, <<"d","o","c","k","e","r","f","i","l","e">>,
    <<"d","o","c","k","e","r","-","c","o","m","p","o","s","e",".","y","m","l">>,
    <<"d","o","c","k","e","r","-","c","o","m","p","o","s","e",".","y","a","m","l">>,
    <<"M","a","k","e","f","i","l","e">>,
    <<"C","M","a","k","e","L","i","s","t","s",".","t","x","t">>,
    <<".","g","i","t","i","g","n","o","r","e">>, <<".","g","i","t","k","e","e","p">>,
    <<".","g","i","t","a","t","t","r","i","b","u","t","e","s">>, <<".","n","p","m","r","c">>,
    <<".","n","v","m","r","c">>, <<".","e","d","i","t","o","r","c","o","n","f","i","g">>,
    <<".","p","r","e","t","t","i","e","r","r","c">>,
    <<".","p","r","e","t","t","i","e","r","i","g","n","o","r","e">>,
    <<".","e","s","l","i","n","t","r","c">>,
    <<".","e","s","l","i","n","t","r","c",".","j","s","o","n">>,
    <<".","e","s","l","i","n","t","i","g","n","o","r","e">>,
    <<".","s","t","y","l","e","l","i","n","t","r","c">>,
    <<".","s","t","y","l","e","l","i","n","t","i","g","n","o","r","e">>,
    <<"P","r","o","c","f","i","l","e">>, <<"J","u","s","t","f","i","l","e">>
  }

IGNORE_FOLDERS ==
  {
    <<".","g","i","t">>, <<".","s","v","n">>, <<".","h","g">>, <<".","i","d","e","a">>,
    <<".","v","s","c","o","d","e">>, <<"n","o","d","e","_","m","o","d","u","l","e","s">>,
    <<"b","o","w","e","r","_","c","o","m","p","o","n","e","n","t","s">>,
    <<"j","s","p","m","_","p","a","c","k","a","g","e","s">>,
    <<"_","_","p","y","c","a","c","h","e","_","_">>,
    <<".","p","y","t","e","s","t","_","c","a","c","h","e">>,
    <<".","m","y","p","y","_","c","a","c","h","e">>,
    <<".","r","u","f","f","_","c","a","c","h","e">>, <<".","t","o","x">>,
    <<".","v","e","n","v">>, <<"v","e","n","v">>, <<"e","n","v">>,
    <<".","p","d","m","-","b","u","i","l","d">>, <<".","p","d","m","-","c","a","c","h","e">>,
    <<".","g","r","a","d","l","e">>, <<"b","u","i","l","d">>, <<".","b","u","i","l","d">>,
    <<"o","u","t">>, <<"b","i","n">>, <<"o","b","j">>, <<"P","o","d","s">>,
    <<"D","e","r","i","v","e","d","D","a","t","a">>, <<"t","a","r","g","e","t">>,
    <<".","c","a","r","g","o">>, <<"v","e","n","d","o","r">>,
    <<"c","o","m","p","o","s","e","r">>,
    <<"c","o","m","p","o","s","e","r","_","v","e","n","d","o","r">>, <<".","n","e","x","t">>,
    <<".","n","u","x","t">>, <<".","s","v","e","l","t","e","-","k","i","t">>,
    <<".","p","a","r","c","e","l","-","c","a","c","h","e">>, <<".","c","a","c","h","e">>,
    <<".","t","u","r","b","o">>, <<".","e","x","p","o">>,
    <<".","e","x","p","o","-","s","h","a","r","e","d">>, <<"d","i","s","t">>,
    <<"d","i","s","t","-","e","l","e","c","t","r","o","n">>, <<"r","e","l","e","a","s","e">>,
    <<"r","e","l","e","a","s","e","s">>, <<"c","o","v","e","r","a","g","e">>,
    <<"c","o","v","e","r","a","g","e","-","h","t","m","l">>, <<"l","o","g","s">>,
    <<"l","o","g">>, <<"t","m","p">>, <<"t","e","m","p">>,
    <<".","D","S","_","S","t","o","r","e">>, <<"T","h","u","m","b","s",".","d","b">>
  }

\* ------------------------------------------------------------ str methods
UpperCase == <<"A","B","C","D","E","F","G","H","I","J","K","L","M","N","O","P","Q","R","S","T","U","V","W","X","Y","Z">>
LowerCase == <<"a","b","c","d","e","f","g","h","i","j","k","l","m","n","o","p","q","r","s","t","u","v","w","x","y","z">>

\* str.lower() on one code point.
lowerChar(c) ==
  IF \E i \in 1..Len(UpperCase) : UpperCase[i] = c
  THEN LowerCase[CHOOSE i \in 1..Len(UpperCase) : UpperCase[i] = c]
  ELSE c

\* str.lower()
lower(s) == [i \in 1..Len(s) |-> lowerChar(s[i])]

\* str.find(c) and str.rfind(c), 1-based, 0 when c does not occur.
RECURSIVE findFrom(_, _, _)
findFrom(s, c, i) ==
  IF i > Len(s) THEN 0 ELSE IF s[i] = c THEN i ELSE findFrom(s, c, i + 1)

find(s, c) == findFrom(s, c, 1)

RECURSIVE rfindFrom(_, _, _)
rfindFrom(s, c, i) ==
  IF i < 1 THEN 0 ELSE IF s[i] = c THEN i ELSE rfindFrom(s, c, i - 1)

rfind(s, c) == rfindFrom(s, c, Len(s))

\* str.split(c)
RECURSIVE split(_, _)
split(s, c) ==
  LET i == find(s, c)
  IN  IF i = 0 THEN <<s>>
      ELSE <<SubSeq(s, 1, i - 1)>> \o split(SubSeq(s, i + 1, Len(s)), c)

\* c.join(parts)
RECURSIVE joinWith(_, _)
joinWith(parts, c) ==
  IF parts = <<>> THEN <<>>
  ELSE IF Len(parts) = 1 THEN parts[1]
  ELSE parts[1] \o <<c>> \o joinWith(Tail(parts), c)

\* c * n
RECURSIVE repeat(_, _)
repeat(c, n) == IF n <= 0 THEN <<>> ELSE <<c>> \o repeat(c, n - 1)

\* The concatenation of a sequence of strings.
RECURSIVE Flatten(_)
Flatten(chunks) ==
  IF chunks = <<>> THEN <<>> ELSE Head(chunks) \o Flatten(Tail(chunks))

\* --------------------------------------------------------------- os.path
\* os.getcwd(): the directory the tool is run in.
CWD == <<"/","w">>

isabs(p) == Len(p) > 0 /\ p[1] = "/"

\* os.path.join(a, b)
join(a, b) ==
  IF isabs(b) THEN b
  ELSE IF a = <<>> \/ a[Len(a)] = "/" THEN a \o b
  ELSE a \o <<"/">> \o b

\* os.path.basename(p)
basename(p) == SubSeq(p, rfind(p, "/") + 1, Len(p))

\* os.path.dirname(p)
dirname(p) ==
  LET i == rfind(p, "/")
      head == SubSeq(p, 1, i)
  IN  IF head # <<>> /\ head # repeat("/", Len(head))
      THEN SubSeq(head, 1, CHOOSE k \in 1..Len(head) :
                             head[k] # "/" /\ \A j \in (k + 1)..Len(head) : head[j] = "/")
      ELSE head

\* os.path.splitext(p): <<root, ext>>; the dots a name starts with begin no
\* extension.
splitext(p) ==
  LET sepIndex == rfind(p, "/")
      dotIndex == rfind(p, ".")
  IN  IF dotIndex > sepIndex
         /\ \E k \in (sepIndex + 1)..(dotIndex - 1) : p[k] # "."
      THEN <<SubSeq(p, 1, dotIndex - 1), SubSeq(p, dotIndex, Len(p))>>
      ELSE <<p, <<>>>>

\* The loop of os.path.normpath over the components.
RECURSIVE normComps(_, _, _)
normComps(comps, new_comps, rooted) ==
  IF comps = <<>> THEN new_comps
  ELSE LET comp == Head(comps)
       IN  IF comp = <<>> \/ comp = <<".">>
           THEN normComps(Tail(comps), new_comps, rooted)
           ELSE IF comp # <<".", ".">>
                   \/ (~rooted /\ new_comps = <<>>)
                   \/ (new_comps # <<>> /\ new_comps[Len(new_comps)] = <<".", ".">>)
           THEN normComps(Tail(comps), Append(new_comps, comp), rooted)
           ELSE IF new_comps # <<>>
           THEN normComps(Tail(comps), SubSeq(new_comps, 1, Len(new_comps) - 1), rooted)
           ELSE normComps(Tail(comps), new_comps, rooted)

\* os.path.normpath(p)
normpath(p) ==
  LET rooted == isabs(p)
      path == (IF rooted THEN <<"/">> ELSE <<>>)
              \o joinWith(normComps(split(p, "/"), <<>>, rooted), "/")
  IN  IF path = <<>> THEN <<".">> ELSE path

\* os.path.abspath(p)
abspath(p) == normpath(IF isabs(p) THEN p ELSE join(CWD, p))

\* The components of an absolute path, as relpath lists them.
pathList(p) == SelectSeq(split(abspath(p), "/"), LAMBDA x : x # <<>>)

\* os.path.relpath(path, start)
relpath(path, start) ==
  LET start_list == pathList(start)
      path_list == pathList(path)
      m == IF Len(start_list) < Len(path_list) THEN Len(start_list) ELSE Len(path_list)
      i == Cardinality({k \in 1..m : \A j \in 1..k : start_list[j] = path_list[j]})
      rel_list == [k \in 1..(Len(start_list) - i) |-> <<".", ".">>]
                  \o SubSeq(path_list, i + 1, Len(path_list))
  IN  IF rel_list = <<>> THEN <<".">> ELSE joinWith(rel_list, "/")

\* ------------------------------------------------------- the file system
\* The tree under the working directory, as os.walk lists it: for each
\* directory its path from ".", its subdirectories and its files, in the
\* order of the listing.
Tree ==
  << [path |-> <<".">>,
      dirs |-> << <<"s","r","c">>, <<"b","u","i","l","d">> >>,
      files |-> << <<"a",".","p","y">>, <<"B",".","P","Y">>, <<"M","a","k","e","f","i","l","e">>, <<"m","a","k","e","f","i","l","e">>, <<"b",".","p","n","g">>,
                   <<"c","o","d","e","_","c","o","l","l","e","c","t","o","r",".","p","y">> >>],
     [path |-> <<".","/","s","r","c">>,
      dirs |-> << <<"B","u","i","l","d">> >>,
      files |-> << <<".","g","i","t","i","g","n","o","r","e">>, <<"m",".","d">> >>],
     [path |-> <<".","/","s","r","c","/","B","u","i","l","d">>,
      dirs |-> << >>,
      files |-> << <<"k",".","J","s">> >>],
     [path |-> <<".","/","b","u","i","l","d">>,
      dirs |-> << <<"d","e","e","p">> >>,
      files |-> << <<"x",".","c">> >>],
     [path |-> <<".","/","b","u","i","l","d","/","d","e","e","p">>,
      dirs |-> << >>,
      files |-> << <<"y",".","h">> >>] >>

\* The files whose bytes are no UTF-8 text.
BinaryFiles == { <<".","/","b",".","p","n","g">> }

\* What infile.read() returns for a text file of the tree.
FileText(file_path) ==
  CASE file_path = <<".","/","a",".","p","y">> -> <<"p","1">>
    [] file_path = <<".","/","B",".","P","Y">> -> <<"p","2">>
    [] file_path = <<".","/","M","a","k","e","f","i","l","e">> -> <<"a","l","l",":">>
    [] file_path = <<".","/","m","a","k","e","f","i","l","e">> -> <<"m">>
    [] file_path = <<".","/","c","o","d","e","_","c","o","l","l","e","c","t","o","r",".","p","y">> -> <<"c","c">>
    [] file_path = <<".","/","s","r","c","/",".","g","i","t","i","g","n","o","r","e">> -> <<"*",".","o">>
    [] file_path = <<".","/","s","r","c","/","m",".","d">> -> <<"d">>
    [] file_path = <<".","/","s","r","c","/","B","u","i","l","d","/","k",".","J","s">> -> <<"k">>
    [] file_path = <<".","/","b","u","i","l","d","/","x",".","c">> -> <<"x">>
    [] file_path = <<".","/","b","u","i","l","d","/","d","e","e","p","/","y",".","h">> -> <<"y">>
    [] OTHER -> << >>

\* __file__ of the running script.
ScriptFile == <<"c","o","d","e","_","c","o","l","l","e","c","t","o","r",".","p","y">>

\* The values of --output the model runs with: the default, a path into an
\* ignored folder, a path outside the tree, a path whose directory is missing.
OutputFilenames ==
  { <<"c","o","l","l","e","c","t","e","d","_","c","o","d","e",".","t","x","t">>, <<".","/","b","u","i","l","d","/","o",".","l","o","g">>, <<".",".","/","o",".","t","x","t">>, <<"n","o","d","i","r","/","o",".","t","x","t">> }

\* The files open() may refuse to read (PermissionError).
DeniedChoices == { {}, { <<".","/","s","r","c","/",".","g","i","t","i","g","n","o","r","e">> } }

\* What is at the output path before the first run: nothing, or a stale file.
NoFile == [exists |-> FALSE, data |-> << >>]
StaleFile == [exists |-> TRUE, data |-> << <<"o","l","d">> >>]

\* platform.system()
Systems == {"Darwin", "Windows", "Linux"}

\* How subprocess.run(..., check=True) ends: exit status 0, a non-zero exit
\* status (CalledProcessError), or no such program (FileNotFoundError).
RunOutcomes == {"ok", "nonzero", "spawnfail"}

VARIABLES
  pc,               \* where main() is: "main", "walk", "returned", "native", "tk", "exit"
  all_files,        \* args.all
  no_clipboard,     \* args.no_clipboard
  output_filename,  \* args.output
  denied,           \* the files open() refuses to read
  disk,             \* the file at the output path: [exists, data], data the strings written
  stack,            \* os.walk: the directories still to list
  root,             \* the directory os.walk yielded last
  files,            \* the files of root the loop has not visited yet
  file_count,       \* file_count of aggregate_code
  ok,               \* what aggregate_code returned (read when pc is past "walk")
  copied,           \* what copy_file_to_clipboard returned, "notcalled" before
  attempts,         \* the clipboard mechanisms attempted, in order, each with its result
  env,              \* platform.system() and shutil.which() as the dispatcher saw them
  stdout,           \* the messages printed
  visited,          \* the file paths whose loop body ran to its end
  wfault,           \* an operation on the artifact failed in this run
  faults,           \* the environmental failures so far
  run,              \* the number of the run
  prev              \* the previous run: [clean, data]

vars == <<pc, all_files, no_clipboard, output_filename, denied, disk, stack, root,
          files, file_count, ok, copied, attempts, env, stdout, visited, wfault,
          faults, run, prev>>

walkVars == <<stack, root, files>>
argVars == <<all_files, no_clipboard, output_filename, denied>>
clipVars == <<copied, attempts, env>>

script_path == abspath(ScriptFile)
output_path == abspath(output_filename)

dirRecord(path) == CHOOSE d \in {Tree[i] : i \in 1..Len(Tree)} : d.path = path

\* os.path.isdir of an absolute path.
DirExists(abs) ==
  abs = <<"/">> \/ \E i \in 1..Len(Tree) : abspath(Tree[i].path) = abs

\* The files of directory path as scandir lists them: the files of the tree
\* and the file at the output path when it exists there.
Listing(path, d) ==
  LET static == dirRecord(path).files
      name == basename(output_path)
  IN  IF d.exists /\ dirname(output_path) = abspath(path)
         /\ \A i \in 1..Len(static) : static[i] # name
      THEN Append(static, name)
      ELSE static

\* open(file_path).read(): the text, or the exception raised. Reading the
\* file at the output path gives what was written to it so far.
read(file_path, d) ==
  IF file_path \in denied THEN [ok |-> FALSE, e |-> "PermissionError"]
  ELSE IF file_path \in BinaryFiles THEN [ok |-> FALSE, e |-> "UnicodeDecodeError"]
  ELSE IF abspath(file_path) = output_path THEN [ok |-> TRUE, text |-> Flatten(d.data)]
  ELSE [ok |-> TRUE, text |-> FileText(file_path)]

\* ------------------------------------------------------- aggregate_code
\* Mutant: the file is opened in append mode.
OpenAppend(d) == [exists |-> TRUE, data |-> d.data]

\* open(output_filename, "w") truncates the file.
OpenW(d) == [exists |-> TRUE, data |-> << >>]

\* Mutant: dirs is rebound instead of assigned in place, so os.walk descends
\* into every directory.
PruneDirsRebound(dirs, all) == dirs

\* dirs[:] = [d for d in dirs if d not in IGNORE_FOLDERS], unless all_files.
PruneDirs(dirs, all) ==
  IF ~all THEN SelectSeq(dirs, LAMBDA d : d \notin IGNORE_FOLDERS) ELSE dirs

\* Mutant: only the script is skipped.
IsSelfScriptOnly(abs_file_path, script, output) == abs_file_path = script

\* abs_file_path in (script_path, output_path)
IsSelf(abs_file_path, script, output) == abs_file_path \in {script, output}

\* Mutant: the extension is compared as written.
RejectedCaseSensitive(file) ==
  LET name == basename(file)
      ext == splitext(file)[2]
  IN  ext \notin ALLOWED_EXTENSIONS /\ name \notin SPECIAL_FILENAMES

\* (ext.lower() not in ALLOWED_EXTENSIONS) and (name not in SPECIAL_FILENAMES)
Rejected(file) ==
  LET name == basename(file)
      ext == splitext(file)[2]
  IN  lower(ext) \notin ALLOWED_EXTENSIONS /\ name \notin SPECIAL_FILENAMES

Marker == <<"U+25B6", "U+FE0F", " ">>

\* f"<marker> {rel_path}\n{'-' * (len(rel_path) + 2)}\n"
Header(rel_path) ==
  Marker \o rel_path \o <<"\n">> \o repeat("-", Len(rel_path) + 2) \o <<"\n">>

\* infile.read() + "\n\n"
Content(text) == text \o <<"\n", "\n">>

\* f"[Error reading file: {e}]\n\n"; str(e) is one symbol of the model.
Placeholder(e) == <<"[","E","r","r","o","r"," ","r","e","a","d","i","n","g"," ","f","i","l","e",":"," ">> \o <<e>> \o <<"]", "\n", "\n">>

\* Mutant: the handler is except OSError, which a decoding error passes.
CaughtOSErrorOnly(e) == e \in {"OSError", "PermissionError"}

\* except Exception (line 164) catches whatever the inner try raises.
Caught(e) == TRUE

\* Mutant: file_count += 1 stands after the try statement.
NextCountAlways(n, embedded) == n + 1

\* file_count += 1 runs when the read and the write of the content are done.
NextCount(n, embedded) == IF embedded THEN n + 1 ELSE n

\* with open(output_filename, "w"): the file is created and truncated, or
\* open raises and aggregate_code returns False.
OpenOutput ==
  /\ pc = "main"
  /\ \/ /\ DirExists(dirname(output_path))
        /\ disk' = OpenW(disk)
        /\ pc' = "walk"
        /\ stack' = << <<".">> >>
        /\ UNCHANGED <<ok, stdout, wfault, faults>>
     \/ /\ ~DirExists(dirname(output_path))
        /\ ok' = FALSE
        /\ stdout' = Append(stdout, [msg |-> "Error writing", e |-> "FileNotFoundError"])
        /\ pc' = "returned"
        /\ wfault' = TRUE
        /\ UNCHANGED <<disk, stack, faults>>
     \/ /\ DirExists(dirname(output_path))
        /\ faults < MaxFaults
        /\ faults' = faults + 1
        /\ ok' = FALSE
        /\ stdout' = Append(stdout, [msg |-> "Error writing", e |-> "OSError"])
        /\ pc' = "returned"
        /\ wfault' = TRUE
        /\ UNCHANGED <<disk, stack>>
  /\ UNCHANGED <<argVars, root, files, file_count, clipVars, visited, run, prev>>

\* for root, dirs, files in os.walk("."): the next directory, its
\* subdirectories pruned before the descent.
WalkNext ==
  /\ pc = "walk" /\ files = << >> /\ stack # << >>
  /\ LET top == Head(stack)
         dirs == PruneDirs(dirRecord(top).dirs, all_files)
     IN  /\ root' = top
         /\ files' = Listing(top, disk)
         /\ stack' = [i \in 1..Len(dirs) |-> join(top, dirs[i])] \o Tail(stack)
  /\ UNCHANGED <<pc, argVars, disk, file_count, ok, clipVars, stdout, visited,
                 wfault, faults, run, prev>>

\* The exception left the with block: the outer handler reports it and
\* aggregate_code returns False. n counts the failed writes behind it.
Abort(e, n) ==
  /\ ok' = FALSE
  /\ pc' = "returned"
  /\ stdout' = Append(stdout, [msg |-> "Error writing", e |-> e])
  /\ wfault' = (wfault \/ n > 0)
  /\ faults' = faults + n
  /\ UNCHANGED <<files, file_count, visited>>

\* The body of the loop for one file that is written: the header, then the
\* content or the placeholder. Each outfile.write may fail (OSError).
Embed(file_path) ==
  LET rel_path == relpath(file_path, <<".">>)
      headed == [disk EXCEPT !.data = Append(@, Header(rel_path))]
      r == read(file_path, disk)
      next(d, embedded, out, n) ==
        /\ disk' = d
        /\ file_count' = NextCount(file_count, embedded)
        /\ stdout' = stdout \o out
        /\ files' = Tail(files)
        /\ visited' = visited \cup {file_path}
        /\ faults' = faults + n
        /\ wfault' = (wfault \/ n > 0)
        /\ UNCHANGED <<pc, ok>>
      warn(e) == << [msg |-> "Warning", e |-> e] >>
      placeholder(e, n) ==
        \/ next([headed EXCEPT !.data = Append(@, Placeholder(e))], FALSE, warn(e), n)
        \/ /\ faults + n < MaxFaults
           /\ disk' = headed
           /\ Abort("OSError", n + 1)
  IN  \/ /\ faults < MaxFaults
         /\ disk' = disk
         /\ Abort("OSError", 1)
      \/ /\ r.ok
         /\ next([headed EXCEPT !.data = Append(@, Content(r.text))], TRUE, << >>, 0)
      \/ /\ r.ok
         /\ faults < MaxFaults
         /\ IF Caught("OSError")
            THEN placeholder("OSError", 1)
            ELSE disk' = headed /\ Abort("OSError", 1)
      \/ /\ ~r.ok
         /\ IF Caught(r.e)
            THEN placeholder(r.e, 0)
            ELSE disk' = headed /\ Abort(r.e, 0)

\* for file in files: one iteration.
VisitFile ==
  /\ pc = "walk" /\ files # << >>
  /\ LET file == Head(files)
         file_path == join(root, file)
         abs_file_path == abspath(file_path)
     IN  IF IsSelf(abs_file_path, script_path, output_path)
            \/ (~all_files /\ Rejected(file))
         THEN /\ files' = Tail(files)
              /\ visited' = visited \cup {file_path}
              /\ UNCHANGED <<pc, disk, file_count, ok, stdout, wfault, faults>>
         ELSE Embed(file_path)
  /\ UNCHANGED <<argVars, stack, root, clipVars, run, prev>>

\* The walk is over: the with block closes the file, the count is printed
\* and aggregate_code returns True; or the close fails.
CloseOutput ==
  /\ pc = "walk" /\ files = << >> /\ stack = << >>
  /\ \/ /\ ok' = TRUE
        /\ stdout' = Append(stdout, [msg |-> "Done", n |-> file_count])
        /\ UNCHANGED <<wfault, faults>>
     \/ /\ faults < MaxFaults
        /\ faults' = faults + 1
        /\ wfault' = TRUE
        /\ ok' = FALSE
        /\ stdout' = Append(stdout, [msg |-> "Error writing", e |-> "OSError"])
  /\ pc' = "returned"
  /\ UNCHANGED <<argVars, disk, walkVars, file_count, clipVars, visited, run, prev>>

\* ------------------------------------------------- clipboard dispatcher
\* Mutant: the return True after a successful subprocess.run is missing.
try_native_clipboard_no_return(system, has_xclip, has_xsel, outcome) ==
  LET one(mech) == [attempts |-> << [mech |-> mech, ok |-> (outcome = "ok")] >>,
                    result |-> FALSE]
  IN  IF system = "Darwin" THEN one("pbcopy")
      ELSE IF system = "Windows" THEN one("clip")
      ELSE IF has_xclip THEN one("xclip")
      ELSE IF has_xsel THEN one("xsel")
      ELSE [attempts |-> << >>, result |-> FALSE]

\* _try_native_clipboard: the mechanisms it attempts, each with its result,
\* and what it returns. An exception of subprocess.run leaves the try block,
\* so nothing after it in the block is attempted.
try_native_clipboard(system, has_xclip, has_xsel, outcome) ==
  LET one(mech) == [attempts |-> << [mech |-> mech, ok |-> (outcome = "ok")] >>,
                    result |-> (outcome = "ok")]
  IN  IF system = "Darwin" THEN one("pbcopy")
      ELSE IF system = "Windows" THEN one("clip")
      ELSE IF has_xclip THEN one("xclip")
      ELSE IF has_xsel THEN one("xsel")
      ELSE [attempts |-> << >>, result |-> FALSE]

\* _try_tk_clipboard: True unless tkinter raises.
try_tk_clipboard(tk_ok) ==
  [attempts |-> << [mech |-> "tkinter", ok |-> tk_ok] >>, result |-> tk_ok]

\* main, line 262: the dispatcher is called, or main ends.
\* copy_file_to_clipboard begins by reading the artifact back.
AfterAggregate ==
  /\ pc = "returned"
  /\ \/ /\ ok /\ ~no_clipboard
        /\ pc' = "native"
        /\ UNCHANGED <<copied, stdout, faults>>
     \/ /\ ok /\ ~no_clipboard
        /\ faults < MaxFaults
        /\ faults' = faults + 1
        /\ copied' = "False"
        /\ stdout' = Append(stdout, [msg |-> "Could not read", e |-> "OSError"])
        /\ pc' = "exit"
     \/ /\ ~(ok /\ ~no_clipboard)
        /\ pc' = "exit"
        /\ UNCHANGED <<copied, stdout, faults>>
  /\ UNCHANGED <<argVars, disk, walkVars, file_count, ok, attempts, env, visited,
                 wfault, run, prev>>

\* if _try_native_clipboard(data): ... return True
TryNative ==
  /\ pc = "native"
  /\ \E system \in Systems, has_xclip \in BOOLEAN, has_xsel \in BOOLEAN,
        outcome \in RunOutcomes :
       LET r == try_native_clipboard(system, has_xclip, has_xsel, outcome)
       IN  \* shutil.which is asked on the third branch only, and an
           \* outcome belongs to a program that was run.
           /\ system # "Linux" => (has_xclip /\ has_xsel)
           /\ r.attempts = << >> => outcome = "ok"
           /\ env' = [system |-> system, xclip |-> has_xclip, xsel |-> has_xsel]
           /\ attempts' = attempts \o r.attempts
           /\ IF r.result
              THEN /\ copied' = "True"
                   /\ stdout' = Append(stdout, [msg |-> "Copied", e |-> "native"])
                   /\ pc' = "exit"
              ELSE /\ pc' = "tk"
                   /\ UNCHANGED <<copied, stdout>>
  /\ UNCHANGED <<argVars, disk, walkVars, file_count, ok, visited, wfault, faults,
                 run, prev>>

\* if _try_tk_clipboard(data): ... return True; else report and return False.
TryTk ==
  /\ pc = "tk"
  /\ \E tk_ok \in BOOLEAN :
       LET r == try_tk_clipboard(tk_ok)
       IN  /\ attempts' = attempts \o r.attempts
           /\ copied' = IF r.result THEN "True" ELSE "False"
           /\ stdout' = Append(stdout,
                 IF r.result THEN [msg |-> "Copied", e |-> "tkinter"]
                 ELSE [msg |-> "Clipboard not available", e |-> "none"])
  /\ pc' = "exit"
  /\ UNCHANGED <<argVars, disk, walkVars, file_count, ok, env, visited, wfault,
                 faults, run, prev>>

\* ------------------------------------------------------------------ runs
NoEnv == [system |-> "none", xclip |-> FALSE, xsel |-> FALSE]

\* The tool is run again in the same directory with the same arguments.
Rerun ==
  /\ pc = "exit" /\ run < MaxRuns
  /\ run' = run + 1
  /\ prev' = IF ok /\ ~wfault THEN [clean |-> TRUE, data |-> disk.data]
             ELSE [clean |-> FALSE, data |-> << >>]
  /\ pc' = "main"
  /\ stack' = << >> /\ root' = <<".">> /\ files' = << >>
  /\ file_count' = 0
  /\ ok' = FALSE
  /\ copied' = "notcalled" /\ attempts' = << >> /\ env' = NoEnv
  /\ stdout' = << >>
  /\ visited' = {}
  /\ wfault' = FALSE
  /\ UNCHANGED <<argVars, disk, faults>>

Init ==
  /\ pc = "main"
  /\ all_files \in BOOLEAN
  /\ no_clipboard \in BOOLEAN
  /\ output_filename \in OutputFilenames
  /\ denied \in DeniedChoices
  /\ disk \in {NoFile, StaleFile}
  /\ stack = << >> /\ root = <<".">> /\ files = << >>
  /\ file_count = 0
  /\ ok = FALSE
  /\ copied = "notcalled" /\ attempts = << >> /\ env = NoEnv
  /\ stdout = << >>
  /\ visited = {}
  /\ wfault = FALSE
  /\ faults = 0
  /\ run = 1
  /\ prev = [clean |-> FALSE, data |-> << >>]

Next ==
  \/ OpenOutput
  \/ WalkNext
  \/ VisitFile
  \/ CloseOutput
  \/ AfterAggregate
  \/ TryNative
  \/ TryTk
  \/ Rerun

Spec == Init /\ [][Next]_vars

\* ------------------------------------------------- reading the artifact
\* aggregate_code has returned.
Ended == pc \in {"returned", "native", "tk", "exit"}

\* copy_file_to_clipboard was called.
Dispatched == pc \in {"native", "tk"} \/ copied # "notcalled"

IsHeader(chunk) == Len(chunk) >= Len(Marker) /\ SubSeq(chunk, 1, Len(Marker)) = Marker

IsPlaceholder(chunk) ==
  LET lead == <<"[","E","r","r","o","r"," ","r","e","a","d","i","n","g"," ","f","i","l","e",":"," ">>
  IN  Len(chunk) >= Len(lead) /\ SubSeq(chunk, 1, Len(lead)) = lead

\* The path a header names: what follows the marker on its first line.
HeaderPath(chunk) == SubSeq(chunk, Len(Marker) + 1, find(chunk, "\n") - 1)

\* The relative paths that have a header in the artifact.
Entries == {HeaderPath(disk.data[i]) : i \in {k \in 1..Len(disk.data) : IsHeader(disk.data[k])}}

\* The paths of the files of the tree.
TreeFiles ==
  UNION { {join(Tree[i].path, Tree[i].files[k]) : k \in 1..Len(Tree[i].files)}
          : i \in 1..Len(Tree) }

\* The file paths a walk can visit: the files of the tree and the output
\* file in one of its directories.
KnownPaths ==
  TreeFiles \cup {join(Tree[i].path, basename(o)) : i \in 1..Len(Tree), o \in OutputFilenames}

\* A relative path lies beneath a directory whose name is in IGNORE_FOLDERS.
BeneathIgnored(p) ==
  LET comps == split(p, "/")
  IN  \E k \in 1..(Len(comps) - 1) : comps[k] \in IGNORE_FOLDERS

\* For each known path: its path relative to the root, its absolute path,
\* whether it lies beneath an ignored folder and whether the filter of
\* Filtered mode lets its name pass.
Rel == [f \in KnownPaths |-> relpath(f, <<".">>)]
Abs == [f \in KnownPaths |-> abspath(f)]
IgnoredFiles == {f \in KnownPaths : BeneathIgnored(Rel[f])}
AllowedFiles ==
  {f \in KnownPaths : \/ lower(splitext(basename(f))[2]) \in ALLOWED_EXTENSIONS
                       \/ basename(f) \in SPECIAL_FILENAMES}

\* The absolute and the relative path of each value of --output, and of the
\* script.
OutputAbs == [o \in OutputFilenames |-> abspath(o)]
OutputRel == [o \in OutputFilenames |-> relpath(abspath(o), <<".">>)]
ScriptRel == relpath(script_path, <<".">>)

NotSelf(f) == Abs[f] \notin {script_path, OutputAbs[output_filename]}

ReadFails(f) == f \in denied \/ f \in BinaryFiles

\* ---------------------------------------------------------------- claims

C2_IgnoredFoldersPruned ==
  /\ ~all_files =>
       LET entries == Entries
       IN  \A f \in IgnoredFiles : Rel[f] \notin entries
  /\ (all_files /\ Ended /\ ok) =>
       LET entries == Entries
       IN  \A f \in TreeFiles :
             (f \in IgnoredFiles /\ NotSelf(f)) => Rel[f] \in entries

C2_Witness ==
  /\ ~all_files /\ pc = "returned" /\ ok
  /\ <<"s","r","c","/","B","u","i","l","d","/","k",".","J","s">> \in Entries
  /\ <<"b","u","i","l","d","/","x",".","c">> \notin Entries /\ <<"b","u","i","l","d","/","d","e","e","p","/","y",".","h">> \notin Entries
  /\ visited \cap IgnoredFiles = {}

\* C3: in either mode and for any output filename, also when the artifact of
\* an earlier run is in the tree, the artifact has no header for the output
\* path nor for the script.
C3_NoSelfEntry ==
  LET entries == Entries
  IN  /\ OutputRel[output_filename] \notin entries
      /\ ScriptRel \notin entries

C3_Witness ==
  /\ run = 2 /\ prev.clean /\ pc = "returned" /\ ok /\ all_files
  /\ output_filename = <<"c","o","l","l","e","c","t","e","d","_","c","o","d","e",".","t","x","t">>
  /\ {<<".","/","c","o","l","l","e","c","t","e","d","_","c","o","d","e",".","t","x","t">>, <<".","/","c","o","d","e","_","c","o","l","l","e","c","t","o","r",".","p","y">>} \subseteq visited
  /\ <<"b","u","i","l","d","/","d","e","e","p","/","y",".","h">> \in Entries

\* C4: when no operation on the artifact fails, a file whose read fails gets
\* its header and the placeholder, every file to include has its header,
\* followed by its content when it is readable, and aggregate_code returns
\* True.
C4_ReadErrorIsolated ==
  (Ended /\ ~wfault) =>
    /\ ok
    /\ \A f \in TreeFiles :
         (NotSelf(f) /\ (all_files \/ (f \notin IgnoredFiles /\ f \in AllowedFiles)))
         => \E i \in 1..(Len(disk.data) - 1) :
              /\ IsHeader(disk.data[i]) /\ HeaderPath(disk.data[i]) = Rel[f]
              /\ IF ReadFails(f)
                 THEN IsPlaceholder(disk.data[i + 1])
                 ELSE disk.data[i + 1] = FileText(f) \o <<"\n", "\n">>

C4_Witness ==
  /\ pc = "exit" /\ ok /\ ~wfault /\ ~all_files
  /\ <<".","/","s","r","c","/",".","g","i","t","i","g","n","o","r","e">> \in denied
  /\ \E i \in 1..(Len(disk.data) - 1) :
       /\ HeaderPath(disk.data[i]) = <<"s","r","c","/",".","g","i","t","i","g","n","o","r","e">>
       /\ IsPlaceholder(disk.data[i + 1])
  /\ <<"s","r","c","/","B","u","i","l","d","/","k",".","J","s">> \in Entries

\* C5 (as the specification states it): on a platform that is neither macOS
\* nor Windows a failed xclip is followed by an attempt of xsel when xsel is
\* installed, and only then by Tkinter.
C5_XselAfterFailedXclip ==
  (pc = "exit" /\ env.system = "Linux" /\ env.xsel) =>
    \A i \in 1..Len(attempts) :
      (attempts[i].mech = "xclip" /\ ~attempts[i].ok) =>
        (i < Len(attempts) /\ attempts[i + 1].mech = "xsel")

\* C6 (as the specification states it): when creating, writing or closing
\* the artifact fails, aggregate_code reports the error and returns False
\* and the dispatcher is not called; the dispatcher is called only after
\* aggregate_code returned True without --no-clipboard.
C6_WriteFailureIsFatal ==
  /\ (Ended /\ wfault) =>
       /\ ~ok
       /\ ~Dispatched
       /\ \E i \in 1..Len(stdout) : stdout[i].msg = "Error writing"
  /\ Dispatched => (ok /\ ~no_clipboard)

\* C7: copy_file_to_clipboard returns True exactly when a mechanism
\* succeeded; the first success ends the chain, so Tkinter is attempted only
\* after the native attempt did not succeed; when every mechanism fails it
\* reports that and returns False, the artifact written and the run ended.
C7_ClipboardResult ==
  /\ \A i \in 1..Len(attempts) : attempts[i].ok => i = Len(attempts)
  /\ \A i \in 1..Len(attempts) : attempts[i].mech = "tkinter" => i = Len(attempts)
  /\ copied # "notcalled" =>
       /\ pc = "exit" /\ ok /\ disk.exists
       /\ (copied = "True") <=> (\E i \in 1..Len(attempts) : attempts[i].ok)
  /\ (pc = "exit" /\ \E i \in 1..Len(attempts) :
                       attempts[i].mech = "tkinter" /\ ~attempts[i].ok) =>
       /\ copied = "False"
       /\ stdout[Len(stdout)].msg = "Clipboard not available"
       /\ \E i \in 1..Len(stdout) : stdout[i].msg = "Done"

C7_Witness ==
  /\ pc = "exit" /\ copied = "False" /\ ok
  /\ env.system = "Linux" /\ ~env.xclip /\ ~env.xsel
  /\ attempts = << [mech |-> "tkinter", ok |-> FALSE] >>
  /\ Len(disk.data) > 0

\* C8: a second run in the same directory with the same mode and output
\* filename, both runs free of failures on the artifact, leaves an artifact
\* equal byte for byte to that of the run before.
C8_Idempotent ==
  (run >= 2 /\ Ended /\ ok /\ ~wfault /\ prev.clean) =>
    Flatten(disk.data) = Flatten(prev.data)

C8_Witness ==
  /\ run = 2 /\ pc = "exit" /\ ok /\ ~wfault /\ prev.clean
  /\ output_filename = <<"c","o","l","l","e","c","t","e","d","_","c","o","d","e",".","t","x","t">>
  /\ <<".","/","c","o","l","l","e","c","t","e","d","_","c","o","d","e",".","t","x","t">> \in visited
  /\ Len(disk.data) > 2

\* C9: the count a successful run reports is the number of files whose
\* content is in the artifact: a header followed by a placeholder is not
\* counted, nor is a file without a header.
C9_CountIsEmbedded ==
  (Ended /\ ok) =>
    LET contents == {i \in 1..Len(disk.data) :
                       ~IsHeader(disk.data[i]) /\ ~IsPlaceholder(disk.data[i])}
        headers == {i \in 1..Len(disk.data) : IsHeader(disk.data[i])}
        placeholders == {i \in 1..Len(disk.data) : IsPlaceholder(disk.data[i])}
    IN  /\ \E i \in 1..Len(stdout) :
             stdout[i].msg = "Done" /\ stdout[i].n = Cardinality(contents)
        /\ file_count = Cardinality(contents)
        /\ Cardinality(headers) = Cardinality(contents) + Cardinality(placeholders)
        /\ \A i \in contents : i > 1 /\ IsHeader(disk.data[i - 1])

C9_Witness ==
  /\ pc = "exit" /\ ok /\ all_files /\ file_count = 9
  /\ <<"b",".","p","n","g">> \in Entries
  /\ \E i \in 1..Len(disk.data) : IsPlaceholder(disk.data[i])

\* C10 (as the specification states it): an entry is a header line, the
\* marker and the path relative to the root, then a line of dashes as long
\* as the header line, then the content or the placeholder.
C10_UnderlineMatchesHeader ==
  \A i \in 1..Len(disk.data) :
    IsHeader(disk.data[i]) =>
      LET lines == split(disk.data[i], "\n")
      IN  /\ Len(lines) = 3 /\ lines[3] = << >>
          /\ lines[2] = repeat("-", Len(lines[2]))
          /\ Len(lines[2]) = Len(lines[1])

====
